---- MODULE Spec2Model ----
(***************************************************************************)
(* Model of the AsistenteFinanciero repository:                            *)
(*   financial_assistant.py  _normalize_description, FinancialAssistant    *)
(*   financial_dashboard.py  main (the inline periodic-charge detector)    *)
(*   detect_subs.py          detect_subscriptions                          *)
(* Texts are TLA+ strings handled character by character (Len, SubSeq,    *)
(* \o).  Amounts are integer cents.  Dates are day numbers counted from    *)
(* 1 January 2025 (day 0).                                                 *)
(***************************************************************************)
EXTENDS Integers, Sequences, FiniteSets, TLC

VARIABLES
    desc,               \* argument handed to _normalize_description
    normalized,         \* results of the successive applications to desc
    statement,          \* rows of the bank statement file (self.filename / path)
    dataframe,          \* FinancialAssistant.dataframe
    category_totals,    \* FinancialAssistant.category_totals (<<>> is None)
    monthly_summary_df, \* FinancialAssistant.monthly_summary_df (<<>> is None)
    called,             \* the last operation called ("" before any call)
    raised,             \* exception raised by the last call ("" when it returned)
    subs,               \* financial_dashboard.main: the list subs
    result              \* detect_subs.detect_subscriptions: the returned table

vars == <<desc, normalized, statement, dataframe, category_totals,
          monthly_summary_df, called, raised, subs, result>>

(***************************************************************************)
(* Bounds of the model.                                                    *)
(***************************************************************************)
MaxPieces == 3      \* a text is a concatenation of at most MaxPieces pieces
MaxApply == 2       \* _normalize_description is applied at most twice in a row
MaxRows == 2        \* rows of a statement handed to the FinancialAssistant
MaxCharges == 4     \* rows of a statement handed to the detectors
FirstDay == 30      \* day of the first row of a statement (31 January 2025)

(***************************************************************************)
(* Character helpers (Python str methods).                                 *)
(***************************************************************************)
Char(s, i) == SubSeq(s, i, i)

\* str.lower() of one character
LowerChar(c) ==
    CASE c = "A" -> "a" []
         c = "B" -> "b" []
         c = "C" -> "c" []
         c = "D" -> "d" []
         c = "E" -> "e" []
         c = "F" -> "f" []
         c = "G" -> "g" []
         c = "H" -> "h" []
         c = "I" -> "i" []
         c = "J" -> "j" []
         c = "K" -> "k" []
         c = "L" -> "l" []
         c = "M" -> "m" []
         c = "N" -> "n" []
         c = "O" -> "o" []
         c = "P" -> "p" []
         c = "Q" -> "q" []
         c = "R" -> "r" []
         c = "S" -> "s" []
         c = "T" -> "t" []
         c = "U" -> "u" []
         c = "V" -> "v" []
         c = "W" -> "w" []
         c = "X" -> "x" []
         c = "Y" -> "y" []
         c = "Z" -> "z" []
         OTHER -> c

RECURSIVE MapChars(_, _, _)
MapChars(Op(_), s, i) ==
    IF i > Len(s) THEN "" ELSE Op(Char(s, i)) \o MapChars(Op, s, i + 1)

\* str.lower()
lower(s) == MapChars(LowerChar, s, 1)

\* str.startswith(prefix)
startswith(s, prefix) ==
    Len(s) >= Len(prefix) /\ SubSeq(s, 1, Len(prefix)) = prefix

\* kw in desc
Contains(s, kw) ==
    \E i \in 1..(Len(s) - Len(kw) + 1) : SubSeq(s, i, i + Len(kw) - 1) = kw

IsSpace(c) == c \in {" ", "\t"}

\* str.split(): the maximal runs of non-whitespace characters
RECURSIVE split(_, _, _)
split(s, i, cur) ==
    IF i > Len(s)
    THEN (IF cur = "" THEN <<>> ELSE <<cur>>)
    ELSE IF IsSpace(Char(s, i))
         THEN (IF cur = "" THEN <<>> ELSE <<cur>>) \o split(s, i + 1, "")
         ELSE split(s, i + 1, cur \o Char(s, i))

\* sep.join(words)
RECURSIVE join(_, _)
join(sep, words) ==
    IF Len(words) = 0 THEN ""
    ELSE IF Len(words) = 1 THEN words[1]
    ELSE words[1] \o sep \o join(sep, Tail(words))

(***************************************************************************)
(* _normalize_description                                                  *)
(***************************************************************************)
PREFIXES == <<
    "pago movil en",
    "pago móvil en",
    "pago mov en",
    "pago movil",
    "pago móvil",
    "pago mov.",
    "transaccion contactless en",
    "transacción contactless en",
    "transaccion contactless",
    "transacción contactless",
    "compra en",
    "compra",
    "recibo de",
    "recibo",
    "cargo de",
    "abono de" >>

TOKENS == {",", ";", ":", ".", "-", "*", "#", "!", "@"}

\* a loop that starts again after every cut, until no prefix is left
RECURSIVE StripEveryPrefix(_)
StripEveryPrefix(s) ==
    IF \E i \in 1..Len(PREFIXES) : startswith(s, PREFIXES[i])
    THEN LET i == CHOOSE j \in 1..Len(PREFIXES) :
                      /\ startswith(s, PREFIXES[j])
                      /\ \A k \in 1..(j - 1) : ~startswith(s, PREFIXES[k])
         IN  StripEveryPrefix(SubSeq(s, Len(PREFIXES[i]) + 1, Len(s)))
    ELSE s

\* the loop over the prefixes: the first one desc starts with is cut, then break
StripPrefix(s) ==
    IF \E i \in 1..Len(PREFIXES) : startswith(s, PREFIXES[i])
    THEN LET i == CHOOSE j \in 1..Len(PREFIXES) :
                      /\ startswith(s, PREFIXES[j])
                      /\ \A k \in 1..(j - 1) : ~startswith(s, PREFIXES[k])
         IN  SubSeq(s, Len(PREFIXES[i]) + 1, Len(s))
    ELSE s

ReplaceToken(c) == IF c \in TOKENS THEN " " ELSE c

\* the loop over the tokens: every occurrence of each becomes one space
ReplaceTokens(s) == MapChars(ReplaceToken, s, 1)

\* " ".join(desc.split())
UnifySpaces(s) == join(" ", split(s, 1, ""))

\* desc is [type |-> the Python type's name, value |-> the text when a str]
_normalize_description(d) ==
    IF d.type # "str" THEN ""
    ELSE UnifySpaces(ReplaceTokens(StripPrefix(lower(d.value))))

Str(s) == [type |-> "str", value |-> s]
None == [type |-> "NoneType", value |-> ""]

(***************************************************************************)
(* Calendar: day 0 is 1 January 2025; a month is numbered 12 * year + m.   *)
(***************************************************************************)
IsLeap(y) == (2025 + y) % 4 = 0

DaysInMonth(y, m) ==
    IF m = 1 THEN (IF IsLeap(y) THEN 29 ELSE 28)
    ELSE IF m \in {3, 5, 8, 10} THEN 30
    ELSE 31

\* Series.dt.to_period("M"): the calendar month a day falls in
RECURSIVE PeriodFrom(_, _, _)
PeriodFrom(d, y, m) ==
    IF d < DaysInMonth(y, m) THEN 12 * y + m
    ELSE PeriodFrom(d - DaysInMonth(y, m),
                    IF m = 11 THEN y + 1 ELSE y,
                    IF m = 11 THEN 0 ELSE m + 1)

to_period(d) == PeriodFrom(d, 0, 0)

(***************************************************************************)
(* Sequence helpers.                                                       *)
(***************************************************************************)
Range(s) == {s[i] : i \in 1..Len(s)}

RECURSIVE Sum(_)
Sum(s) == IF Len(s) = 0 THEN 0 ELSE Head(s) + Sum(Tail(s))

Min(S) == CHOOSE x \in S : \A y \in S : x <= y
Max(S) == CHOOSE x \in S : \A y \in S : x >= y

\* the integers of a set in ascending order
RECURSIVE Ascending(_)
Ascending(S) ==
    IF S = {} THEN <<>> ELSE <<Min(S)>> \o Ascending(S \ {Min(S)})

\* the elements of s that satisfy Keep, in the order of s
Filter(s, Keep(_)) == SelectSeq(s, Keep)

(***************************************************************************)
(* CATEGORY_KEYWORDS, in the order the dictionary declares it.             *)
(***************************************************************************)
CATEGORY_KEYWORDS == <<
    [cat |-> "finanzas", keywords |-> <<
        "transferencia", "transfer", "bizum", "paypal", "comision",
        "comisiones", "cuota", "liquidacion contrato", "retirada", "ingreso",
        "nomina", "mantenimiento", "cajero", "atm", "reintegro", "pension",
        "abono", "devolucion" >>],
    [cat |-> "servicios", keywords |-> <<
        "telefonica", "digi", "internet", "fibra", "vodafone", "orange",
        "jazztel", "electricidad", "luz", "endesa", "iberdrola", "naturgy",
        "agua", "gas", "factura" >>],
    [cat |-> "salud", keywords |-> <<
        "medico", "sanitas", "seguro medico", "hospital", "farmacia",
        "parafarmacia", "dentista" >>],
    [cat |-> "viajes", keywords |-> <<
        "hotel", "alojamiento", "airbnb", "booking", "vueling", "renfe",
        "iberia", "vuelo", "billete" >>],
    [cat |-> "compras", keywords |-> <<
        "zara", "primark", "h&m", "pull&bear", "pull and bear", "bershka",
        "decathlon", "amazon", "corte ingles", "fnac", "ikea", "aliexpress",
        "game", "electronica", "farmacia", "farmac", "supercor" >>],
    [cat |-> "ocio", keywords |-> <<
        "netflix", "spotify", "gym", "gimnasio", "deporte", "cine",
        "cinepolis", "teatro", "estanco", "tabaco", "loteria", "apuesta",
        "pub", "cerveceria", "discoteca" >>],
    [cat |-> "impuestos", keywords |-> <<
        "impuesto", "tasas", "dgt", "multas", "hacienda",
        "seguridad social" >>],
    [cat |-> "restauracion", keywords |-> <<
        "restaurante", "restaurant", "bar", "cafeteria", "cafetería", "cafe",
        "cerveceria", "cervecería", "pub", "pizzeria", "pizzería", "burger",
        "kebab", "sushi", "taberna", "marisqueria", "merendero",
        "hamburguesa", "bocateria", "bocatería", "comida rapida" >>],
    [cat |-> "transporte", keywords |-> <<
        "repsol", "cepsa", "ballenoil", "bp", "terzo", "cedipsa",
        "estacion de servicio", "gasolinera", "combustible", "gasolina",
        "diesel", "peaje", "parking", "aparcamiento", "taxi", "uber", "bus",
        "metro", "tren" >>],
    [cat |-> "alimentacion", keywords |-> <<
        "mercadona", "carrefour", "dia", "lidl", "eroski", "alcampo", "hiper",
        "supermercado", "super", "misuper", "condis", "caprabo", "panaderia",
        "pasteleria", "fruteria", "carniceria", "pescaderia", "alimentacion",
        "comestibles", "ultramarinos", "camper", "galileo" >>],
    [cat |-> "mascotas", keywords |-> <<
        "veterinario", "pet", "mascotas" >>] >>

\* the inner loop: some keyword of the category occurs in the description
Matches(entry, d) ==
    \E k \in 1..Len(entry.keywords) : Contains(d, entry.keywords[k])

\* a loop that is not left at the first match: the last matching category
\* is the one that stays assigned
RECURSIVE FirstMatchNoBreakFrom(_, _, _)
FirstMatchNoBreakFrom(i, d, assigned) ==
    IF i > Len(CATEGORY_KEYWORDS) THEN assigned
    ELSE FirstMatchNoBreakFrom(i + 1, d,
             IF Matches(CATEGORY_KEYWORDS[i], d) THEN CATEGORY_KEYWORDS[i].cat
             ELSE assigned)

FirstMatchNoBreak(d) == FirstMatchNoBreakFrom(1, d, "")

\* the loop over CATEGORY_KEYWORDS.items() from the i-th category on, left at
\* the first category that matches; "" stands for category_assigned = None
RECURSIVE FirstMatchFrom(_, _)
FirstMatchFrom(i, d) ==
    IF i > Len(CATEGORY_KEYWORDS) THEN ""
    ELSE IF Matches(CATEGORY_KEYWORDS[i], d) THEN CATEGORY_KEYWORDS[i].cat
    ELSE FirstMatchFrom(i + 1, d)

FirstMatch(d) == FirstMatchFrom(1, d)

\* amount >= 0 in place of amount > 0
CategorizeZeroAsIncome(d, amount) ==
    LET category_assigned == IF amount >= 0 THEN "finanzas" ELSE FirstMatch(d)
    IN  IF category_assigned = "" THEN "otros" ELSE category_assigned

\* the body of the loop of classify_transactions for one row: d is the
\* normalized description, amount the row's importe
Categorize(d, amount) ==
    LET category_assigned == IF amount > 0 THEN "finanzas" ELSE FirstMatch(d)
    IN  IF category_assigned = "" THEN "otros" ELSE category_assigned


(***************************************************************************)
(* FinancialAssistant.  A statement row is a row of the file under the     *)
(* header row: fecha_operacion a day, concepto a text, importe <<cents>>   *)
(* or <<>> for a cell that holds no number.  A row of the dataframe has    *)
(* importe as a number and, once classified, the column categoria.         *)
(***************************************************************************)
EmptyFrame == [columns |-> {}, rows |-> <<>>]

\* a frame with columns and no rows taken as not empty
HasNoColumns(df) == df.columns = {}

\* DataFrame.empty
IsEmpty(df) == df.columns = {} \/ Len(df.rows) = 0

HasAmount(row) == Len(row.importe) = 1

\* load_transactions: rows without a valid importe are dropped, the others
\* keep the order of the file (reset_index)
LoadedFrame(file) ==
    [columns |-> {"fecha_operacion", "concepto", "importe"},
     rows |-> LET df == Filter(file, HasAmount)
              IN  [i \in 1..Len(df) |->
                      [fecha_operacion |-> df[i].fecha_operacion,
                       concepto |-> df[i].concepto,
                       importe |-> df[i].importe[1]]]]

\* only the expenses are classified and kept
ClassifiedFrameExpensesOnly(df) ==
    LET expense(r) == r.importe <= 0
        kept == Filter(df.rows, expense)
    IN  [columns |-> df.columns \cup {"categoria"},
         rows |-> [i \in 1..Len(kept) |->
                      [fecha_operacion |-> kept[i].fecha_operacion,
                       concepto |-> kept[i].concepto,
                       importe |-> kept[i].importe,
                       categoria |-> Categorize(
                           _normalize_description(Str(kept[i].concepto)),
                           kept[i].importe)]]]

\* classify_transactions past its guard: one category per row, appended in
\* row order and stored as the column categoria
ClassifiedFrame(df) ==
    [columns |-> df.columns \cup {"categoria"},
     rows |-> [i \in 1..Len(df.rows) |->
                  [fecha_operacion |-> df.rows[i].fecha_operacion,
                   concepto |-> df.rows[i].concepto,
                   importe |-> df.rows[i].importe,
                   categoria |-> Categorize(
                       _normalize_description(Str(df.rows[i].concepto)),
                       df.rows[i].importe)]]]

\* the keys of a groupby come out sorted: the category names in that order
SortedCategories == <<"alimentacion", "compras", "finanzas", "impuestos",
                      "mascotas", "ocio", "otros", "restauracion", "salud",
                      "servicios", "transporte", "viajes">>

AmountsOf(rows, Keep(_)) ==
    [i \in 1..Len(Filter(rows, Keep)) |-> Filter(rows, Keep)[i].importe]

\* groupby('categoria')['importe'].sum().reset_index()
GroupTotals(rows) ==
    LET present(c) == \E i \in 1..Len(rows) : rows[i].categoria = c
        cats == Filter(SortedCategories, present)
    IN  [k \in 1..Len(cats) |->
            LET member(r) == r.categoria = cats[k]
            IN  [categoria |-> cats[k],
                 importe |-> Sum(AmountsOf(rows, member))]]

\* sort_values('importe', ascending=False), equal totals keeping their order
RECURSIVE SortDescending(_)
SortDescending(t) ==
    IF Len(t) = 0 THEN <<>>
    ELSE LET top == Max({t[i].importe : i \in 1..Len(t)})
             k == Min({i \in 1..Len(t) : t[i].importe = top})
         IN  <<t[k]>> \o SortDescending(SubSeq(t, 1, k - 1) \o
                                        SubSeq(t, k + 1, Len(t)))

CategoryTotals(df) == SortDescending(GroupTotals(df.rows))

\* pivot_table(index='mes', columns='categoria', aggfunc='sum', fill_value=0)
\* followed by sort_index()
MonthlySummary(df) ==
    LET rows == df.rows
        months == Ascending({to_period(rows[i].fecha_operacion) :
                                i \in 1..Len(rows)})
        cats == {rows[i].categoria : i \in 1..Len(rows)}
    IN  [k \in 1..Len(months) |->
            [mes |-> months[k],
             importe |-> [c \in cats |->
                 LET member(r) == /\ r.categoria = c
                                  /\ to_period(r.fecha_operacion) = months[k]
                 IN  Sum(AmountsOf(rows, member))]]]

Returns(name) == called' = name /\ raised' = ""
Raises(name, exception) == called' = name /\ raised' = exception

load_transactions ==
    /\ dataframe' = LoadedFrame(statement)
    /\ Returns("load_transactions")
    /\ UNCHANGED <<desc, normalized, statement, category_totals,
                   monthly_summary_df, subs, result>>

classify_transactions ==
    /\ IF IsEmpty(dataframe)
       THEN /\ Raises("classify_transactions", "RuntimeError")
            /\ UNCHANGED dataframe
       ELSE /\ dataframe' = ClassifiedFrame(dataframe)
            /\ Returns("classify_transactions")
    /\ UNCHANGED <<desc, normalized, statement, category_totals,
                   monthly_summary_df, subs, result>>

compute_summaries ==
    /\ IF "categoria" \notin dataframe.columns
       THEN /\ Raises("compute_summaries", "RuntimeError")
            /\ UNCHANGED <<category_totals, monthly_summary_df>>
       ELSE /\ category_totals' = <<CategoryTotals(dataframe)>>
            /\ monthly_summary_df' = <<MonthlySummary(dataframe)>>
            /\ Returns("compute_summaries")
    /\ UNCHANGED <<desc, normalized, statement, dataframe, subs, result>>

\* prints only
print_overview ==
    /\ IF category_totals = <<>> \/ monthly_summary_df = <<>>
       THEN Raises("print_overview", "RuntimeError")
       ELSE Returns("print_overview")
    /\ UNCHANGED <<desc, normalized, statement, dataframe, category_totals,
                   monthly_summary_df, subs, result>>

\* returns the tips; rule 3 reads self.dataframe['categoria']
generate_tips ==
    /\ IF category_totals = <<>>
       THEN Raises("generate_tips", "RuntimeError")
       ELSE IF "categoria" \notin dataframe.columns
       THEN Raises("generate_tips", "KeyError")
       ELSE Returns("generate_tips")
    /\ UNCHANGED <<desc, normalized, statement, dataframe, category_totals,
                   monthly_summary_df, subs, result>>


(***************************************************************************)
(* Statements: the first row is dated FirstDay, every further row a gap    *)
(* of `gaps` later; each row takes its concepto and importe from `cells`.  *)
(***************************************************************************)
\* the day of the i-th row, given the gap before every row from the second on
RECURSIVE DayOfRow(_, _)
DayOfRow(gap, i) == IF i = 1 THEN FirstDay ELSE DayOfRow(gap, i - 1) + gap[i]

StatementOf(n, cell, gap) ==
    [i \in 1..n |-> [fecha_operacion |-> DayOfRow(gap, i),
                     concepto |-> cell[i].concepto,
                     importe |-> cell[i].importe]]

\* statement is some file of at most max rows
IsStatement(cells, gaps, max) ==
    \E n \in 0..max :
        \E cell \in [1..n -> cells], gap \in [2..n -> gaps] :
            statement = StatementOf(n, cell, gap)

Cells(concepts, amounts) ==
    {[concepto |-> c, importe |-> <<a>>] : c \in concepts, a \in amounts}

(***************************************************************************)
(* Specification of a FinancialAssistant: its methods called in any order  *)
(* on the statement file it was constructed with.                          *)
(***************************************************************************)
CONCEPTS == {"COMPRA EN FARMACIA", "ABONO DE ZARA", "TRASPASO 12"}

AMOUNTS == {-1250, 0, 150000}

NoAmount == [concepto |-> "SALDO ANTERIOR", importe |-> <<>>]

Init ==
    /\ IsStatement(Cells(CONCEPTS, AMOUNTS) \cup {NoAmount}, {20}, MaxRows)
    /\ desc = None
    /\ normalized = <<>>
    /\ dataframe = EmptyFrame
    /\ category_totals = <<>>
    /\ monthly_summary_df = <<>>
    /\ called = ""
    /\ raised = ""
    /\ subs = <<>>
    /\ result = <<>>

Next ==
    \/ load_transactions
    \/ classify_transactions
    \/ compute_summaries
    \/ print_overview
    \/ generate_tips

Spec == Init /\ [][Next]_vars


(***************************************************************************)
(* Properties of the categorization (specification Spec).                  *)
(***************************************************************************)
Classified == "categoria" \in dataframe.columns

\* the category table read as the claims read it: a category matches a text
\* when one of its keywords, in whatever position of its list, occurs in it
TableNames == {CATEGORY_KEYWORDS[i].cat : i \in 1..Len(CATEGORY_KEYWORDS)}

HasKeywordIn(i, text) ==
    \E kw \in Range(CATEGORY_KEYWORDS[i].keywords) : Contains(text, kw)

SomeCategoryMatches(text) ==
    \E i \in 1..Len(CATEGORY_KEYWORDS) : HasKeywordIn(i, text)

\* c is the earliest declared category with a keyword in the text
IsFirstMatching(c, text) ==
    \E i \in 1..Len(CATEGORY_KEYWORDS) :
        /\ CATEGORY_KEYWORDS[i].cat = c
        /\ HasKeywordIn(i, text)
        /\ \A j \in 1..(i - 1) : ~HasKeywordIn(j, text)

NormalizedOf(row) == _normalize_description(Str(row.concepto))

C3_FallbackIncomeUncategorized ==
    Classified =>
        \A i \in 1..Len(dataframe.rows) :
            LET row == dataframe.rows[i]
            IN  ~SomeCategoryMatches(NormalizedOf(row)) =>
                    row.categoria = (IF row.importe > 0 THEN "income"
                                     ELSE "uncategorized")

\* C3 amended: a row no category matches is "finanzas" when its amount is
\* positive and "otros" when its amount is zero or negative.
C3_FallbackFinanzasOtros ==
    Classified =>
        \A i \in 1..Len(dataframe.rows) :
            LET row == dataframe.rows[i]
            IN  ~SomeCategoryMatches(NormalizedOf(row)) =>
                    row.categoria = (IF row.importe > 0 THEN "finanzas"
                                     ELSE "otros")

\* unmatched rows of positive, zero and negative amount have been classified
C3_Witness ==
    /\ Classified
    /\ \E i, j \in 1..Len(dataframe.rows) :
           /\ ~SomeCategoryMatches(NormalizedOf(dataframe.rows[i]))
           /\ ~SomeCategoryMatches(NormalizedOf(dataframe.rows[j]))
           /\ dataframe.rows[i].importe = 0
           /\ dataframe.rows[j].importe > 0

\* C4: a successful classify_transactions keeps the rows, their order and
\* their date, description and amount, and gives each row one category that
\* is a key of the table or the fallback name.
SameTransaction(a, b) ==
    /\ a.fecha_operacion = b.fecha_operacion
    /\ a.concepto = b.concepto
    /\ a.importe = b.importe

C4_TotalAligned ==
    [][(called' = "classify_transactions" /\ raised' = "") =>
          /\ Len(dataframe'.rows) = Len(dataframe.rows)
          /\ dataframe'.columns = dataframe.columns \cup {"categoria"}
          /\ \A i \in 1..Len(dataframe.rows) :
                 /\ SameTransaction(dataframe'.rows[i], dataframe.rows[i])
                 /\ dataframe'.rows[i].categoria \in TableNames \cup {"otros"}
                 /\ dataframe'.rows[i].categoria # ""]_vars

\* classify_transactions has just succeeded on two rows that fall in
\* different categories, one of them an income
C4_Witness ==
    /\ called = "classify_transactions"
    /\ raised = ""
    /\ Len(dataframe.rows) = 2
    /\ dataframe.rows[1].importe > 0
    /\ dataframe.rows[1].categoria # dataframe.rows[2].categoria


\* C11: an empty transaction set is not an error: classify_transactions on
\* a statement loaded with zero transactions, and detect_subscriptions on a
\* statement of zero rows, complete without raising, with empty outputs.
C11_EmptyIsNotAnError ==
    /\ (/\ called = "classify_transactions"
        /\ dataframe.columns # {}
        /\ Len(dataframe.rows) = 0) => raised = ""
    /\ (called = "detect_subscriptions" /\ Len(statement) = 0)
           => (raised = "" /\ result = <<>>)


\* the call has raised RuntimeError and assigned nothing
StoppedByGuard ==
    /\ raised' = "RuntimeError"
    /\ UNCHANGED <<dataframe, category_totals, monthly_summary_df>>

\* C14: in any sequence of calls, classify_transactions while no row is
\* loaded, compute_summaries while no classification has succeeded (the
\* dataframe then has no column categoria), and print_overview or
\* generate_tips while compute_summaries has not succeeded (category_totals
\* is then still None) raise RuntimeError and leave dataframe,
\* category_totals and monthly_summary_df unchanged.
C14_StageOrdering ==
    [][/\ (called' = "classify_transactions" /\ Len(dataframe.rows) = 0)
            => StoppedByGuard
       /\ (called' = "compute_summaries" /\ ~Classified)
            => StoppedByGuard
       /\ (/\ called' \in {"print_overview", "generate_tips"}
           /\ category_totals = <<>>) => StoppedByGuard]_vars

\* compute_summaries has been refused on rows that are loaded and not yet
\* classified
C14_Witness ==
    /\ called = "compute_summaries"
    /\ raised = "RuntimeError"
    /\ Len(dataframe.rows) > 0
    /\ category_totals = <<>>


\* C15: summaries are never stale: whenever category_totals or
\* monthly_summary_df is set, the dataframe has the column categoria and the
\* summaries are the ones computed from that dataframe, and generate_tips
\* and print_overview never pass their guard on an unclassified dataframe.
C15_SummariesNeverStale ==
    /\ (category_totals # <<>> \/ monthly_summary_df # <<>>) =>
           /\ Classified
           /\ category_totals = <<CategoryTotals(dataframe)>>
           /\ monthly_summary_df = <<MonthlySummary(dataframe)>>
    /\ (called \in {"generate_tips", "print_overview"} /\ ~Classified)
           => raised = "RuntimeError"


(***************************************************************************)
(* Order of the keys of a groupby: texts compare character by character    *)
(* by code point.                                                          *)
(***************************************************************************)
CODEPOINTS ==
    " *.0123456789ABCDEFGHIJKLMNOPQRSTUVWXYZabcdefghijklmnopqrstuvwxyz"

CodePointOf == [i \in 1..Len(CODEPOINTS) |-> Char(CODEPOINTS, i)]

Ord(c) ==
    IF \E i \in 1..Len(CodePointOf) : CodePointOf[i] = c
    THEN CHOOSE i \in 1..Len(CodePointOf) : CodePointOf[i] = c
    ELSE 0

RECURSIVE StrLess(_, _)
StrLess(a, b) ==
    IF Len(b) = 0 THEN FALSE
    ELSE IF Len(a) = 0 THEN TRUE
    ELSE IF Char(a, 1) = Char(b, 1) \/ Ord(Char(a, 1)) = Ord(Char(b, 1))
         THEN StrLess(SubSeq(a, 2, Len(a)), SubSeq(b, 2, Len(b)))
         ELSE Ord(Char(a, 1)) < Ord(Char(b, 1))

\* keys are <<text>> or <<text, number>>
KeyLess(a, b) ==
    IF a[1] = b[1] THEN Len(a) = 2 /\ a[2] < b[2] ELSE StrLess(a[1], b[1])

RECURSIVE SortedKeys(_)
SortedKeys(K) ==
    IF K = {} THEN <<>>
    ELSE LET first == CHOOSE k \in K : \A o \in K \ {k} : KeyLess(k, o)
         IN  <<first>> \o SortedKeys(K \ {first})

\* the integers of a sequence in ascending order (Series.sort_values)
RECURSIVE sort_values(_)
sort_values(s) ==
    IF Len(s) = 0 THEN <<>>
    ELSE LET k == CHOOSE i \in 1..Len(s) : \A j \in 1..Len(s) : s[i] <= s[j]
         IN  <<s[k]>> \o sort_values(SubSeq(s, 1, k - 1) \o
                                     SubSeq(s, k + 1, Len(s)))

\* Series.diff().dt.days.dropna()
diff(s) == [i \in 1..(Len(s) - 1) |-> s[i + 1] - s[i]]

\* twice Series.median(): the middle value, or the mean of the two middle ones
Median2(s) ==
    LET v == sort_values(s)
        n == Len(v)
    IN  IF n % 2 = 1 THEN 2 * v[(n + 1) \div 2]
        ELSE v[n \div 2] + v[n \div 2 + 1]

(***************************************************************************)
(* financial_dashboard.main: the assistant is run on the uploaded file,    *)
(* then the periodic charges are looked for in assistant.dataframe.        *)
(***************************************************************************)
DatesOf(rows) == [i \in 1..Len(rows) |-> rows[i].fecha_operacion]

\* the mean of the gaps in place of their median
MeanInBand(diffs) ==
    /\ 50 * Len(diffs) <= 2 * Sum(diffs)
    /\ 2 * Sum(diffs) <= 70 * Len(diffs)

\* 25 <= med <= 35
MedianInBand(diffs) == 50 <= Median2(diffs) /\ Median2(diffs) <= 70

\* one gap accepted
OneDiffEnough(diffs) == Len(diffs) >= 1

\* len(diffs) >= 2
EnoughDiffs(diffs) == Len(diffs) >= 2


\* the body of the loop over df_sub.groupby(['concepto', 'importe']) for one
\* group: <<>> or the one entry appended to subs
SubsEntry(key, grupo) ==
    LET fechas == sort_values(DatesOf(grupo))
        diffs == diff(fechas)
    IN  IF EnoughDiffs(diffs) /\ MedianInBand(diffs)
        THEN << [Suscripcion |-> key[1],
                 Importe |-> key[2],
                 Primer_pago |-> Min(Range(fechas)),
                 Ultimo_pago |-> Max(Range(fechas)),
                 Veces_detectadas |-> Len(grupo),
                 Intervalo_medio |-> Median2(diffs) \div 2] >>
        ELSE <<>>

\* the concept alone as the key
DashboardKeyConceptOnly(row) == <<row.concepto, 0>>

\* the key of a row in df_sub.groupby(['concepto', 'importe'])
DashboardKey(row) == <<row.concepto, row.importe>>

RECURSIVE SubsOver(_, _)
SubsOver(keys, rows) ==
    IF Len(keys) = 0 THEN <<>>
    ELSE LET member(r) == DashboardKey(r) = Head(keys)
         IN  SubsEntry(Head(keys), Filter(rows, member))
                 \o SubsOver(Tail(keys), rows)

DashboardSubs(rows) ==
    SubsOver(SortedKeys({DashboardKey(rows[i]) : i \in 1..Len(rows)}), rows)

\* one run of the dashboard on the uploaded statement; an exception of the
\* three assistant calls is caught, shown with st.error, and ends the run
dashboard_main ==
    /\ called = ""
    /\ called' = "main"
    /\ dataframe' = IF IsEmpty(LoadedFrame(statement))
                    THEN LoadedFrame(statement)
                    ELSE ClassifiedFrame(LoadedFrame(statement))
    /\ IF IsEmpty(dataframe')
       THEN /\ raised' = "RuntimeError"
            /\ UNCHANGED <<category_totals, monthly_summary_df, subs>>
       ELSE /\ category_totals' = <<CategoryTotals(dataframe')>>
            /\ monthly_summary_df' = <<MonthlySummary(dataframe')>>
            /\ subs' = DashboardSubs(dataframe'.rows)
            /\ raised' = ""
    /\ UNCHANGED <<desc, normalized, statement, result>>

(***************************************************************************)
(* detect_subs.detect_subscriptions                                        *)
(***************************************************************************)
SUBSCRIPTION_KEYWORDS == <<
    "digi", "movil", "telefonica", "fibra", "internet",
    "netflix", "youtube", "youtubepremium", "ytmusic", "spotify",
    "apple", "applecom", "dazn", "primevideo", "hbo", "disney",
    "suscripcion", "mensual" >>

\* pattern.search on a lower-cased concept
HasSubscriptionKeyword(concept) ==
    \E k \in 1..Len(SUBSCRIPTION_KEYWORDS) :
        Contains(concept, SUBSCRIPTION_KEYWORDS[k])

\* steps 3 and 4: the negative amounts, their concept in lower case, that
\* hold a subscription keyword
IsPago(row) == HasAmount(row) /\ row.importe[1] < 0

Pagos(file) ==
    LET negative == Filter(file, IsPago)
        lowered == [i \in 1..Len(negative) |->
                       [fecha_operacion |-> negative[i].fecha_operacion,
                        concepto |-> lower(negative[i].concepto),
                        importe |-> negative[i].importe[1],
                        year_month |-> to_period(negative[i].fecha_operacion)]]
        keyword(r) == HasSubscriptionKeyword(r.concepto)
    IN  Filter(lowered, keyword)

\* the body of the loop over pagos.groupby(CONCEPT_COL) for one group
RowsEntry(concept, grp) ==
    LET months == {grp[i].year_month : i \in 1..Len(grp)}
    IN  IF Cardinality(months) < 2 THEN <<>>
        ELSE << [CONCEPTO |-> concept,
                 IMPORTE_EUR |-> grp[1].importe,
                 first_date |-> Min(Range(DatesOf(grp))),
                 last_date |-> Max(Range(DatesOf(grp))),
                 count |-> Cardinality(months)] >>

\* the concept and the amount as the key
PagoKeyWithAmount(row) == <<row.concepto, row.importe>>

\* the key of a row in pagos.groupby(CONCEPT_COL)
PagoKey(row) == <<row.concepto>>

RECURSIVE RowsOver(_, _)
RowsOver(keys, pagos) ==
    IF Len(keys) = 0 THEN <<>>
    ELSE LET member(r) == PagoKey(r) = Head(keys)
         IN  RowsEntry(Head(keys)[1], Filter(pagos, member))
                 \o RowsOver(Tail(keys), pagos)

SummaryRows(pagos) ==
    RowsOver(SortedKeys({PagoKey(pagos[i]) : i \in 1..Len(pagos)}), pagos)

\* two months accepted
AtLeastTwoMonths(row) == row.count >= 2

\* result["count"] >= 3
AtLeastThreeMonths(row) == row.count >= 3

\* one run of detect_subscriptions on the statement; result["count"] of a
\* table built from no rows raises KeyError
detect_subscriptions ==
    /\ called = ""
    /\ called' = "detect_subscriptions"
    /\ LET pagos == Pagos(statement)
           rows == SummaryRows(pagos)
       IN  IF Len(pagos) = 0
           THEN result' = <<>> /\ raised' = ""
           ELSE IF Len(rows) = 0
           THEN raised' = "KeyError" /\ UNCHANGED result
           ELSE /\ result' = Filter(rows, AtLeastThreeMonths)
                /\ raised' = ""
    /\ UNCHANGED <<desc, normalized, statement, dataframe, category_totals,
                   monthly_summary_df, subs>>

(***************************************************************************)
(* Specification of the two detectors, each run once on a statement.       *)
(***************************************************************************)
CHARGES == {[concepto |-> "NETFLIX", importe |-> <<-999>>],
            [concepto |-> "NETFLIX", importe |-> <<-1499>>],
            [concepto |-> "Netflix", importe |-> <<-999>>],
            [concepto |-> "NOMINA", importe |-> <<150000>>]}

InitRec ==
    /\ IsStatement(CHARGES, {10, 30}, MaxCharges)
    /\ desc = None
    /\ normalized = <<>>
    /\ dataframe = EmptyFrame
    /\ category_totals = <<>>
    /\ monthly_summary_df = <<>>
    /\ called = ""
    /\ raised = ""
    /\ subs = <<>>
    /\ result = <<>>

NextRec ==
    \/ dashboard_main
    \/ detect_subscriptions

SpecRec == InitRec /\ [][NextRec]_vars


(***************************************************************************)
(* Properties of the detectors (specification SpecRec).  A transaction is  *)
(* a row of the statement; its cluster is named by its normalized          *)
(* description.                                                            *)
(***************************************************************************)
Transactions == {i \in 1..Len(statement) : Len(statement[i].importe) = 1}

AmountOf(i) == statement[i].importe[1]
DateOf(i) == statement[i].fecha_operacion
ClusterKeyOf(i) == _normalize_description(Str(statement[i].concepto))

Expenses == {i \in Transactions : AmountOf(i) < 0}

ClusterKeys == {ClusterKeyOf(i) : i \in Transactions}

\* the gaps in days between the consecutive dates of a set of transactions
GapsOf(T) ==
    LET dates == SortSeq([k \in 1..Cardinality(T) |->
                             DateOf(Ascending(T)[k])],
                         LAMBDA a, b : a < b)
    IN  [k \in 1..(Len(dates) - 1) |-> dates[k + 1] - dates[k]]

\* twice the median of a non-empty sequence of gaps
TwiceMedian(gaps) ==
    LET v == SortSeq(gaps, LAMBDA a, b : a < b)
    IN  IF Len(v) % 2 = 1 THEN 2 * v[(Len(v) + 1) \div 2]
        ELSE v[Len(v) \div 2] + v[Len(v) \div 2 + 1]

MonthsOf(T) == {to_period(DateOf(i)) : i \in T}

DashboardRan == called = "main" /\ raised = ""
DetectSubsRan == called = "detect_subscriptions" /\ raised = ""

\* the reports of either detector about the cluster k
DashboardReports(k) ==
    {n \in 1..Len(subs) :
        _normalize_description(Str(subs[n].Suscripcion)) = k}

DetectSubsReports(k) ==
    {n \in 1..Len(result) :
        _normalize_description(Str(result[n].CONCEPTO)) = k}

Reported(k) == DashboardReports(k) # {} \/ DetectSubsReports(k) # {}

\* the periodicity the bands of the claim give to a median gap
BandOf(twiceMedian) ==
    IF 50 <= twiceMedian /\ twiceMedian <= 70 THEN "monthly"
    ELSE IF 170 <= twiceMedian /\ twiceMedian <= 190 THEN "quarterly"
    ELSE IF 710 <= twiceMedian /\ twiceMedian <= 750 THEN "annual"
    ELSE "rejected"

\* both detectors report monthly charges only
ReportedAs(k) == IF Reported(k) THEN "monthly" ELSE "rejected"

ReportedKeys ==
    {_normalize_description(Str(subs[n].Suscripcion)) : n \in 1..Len(subs)}
        \cup {_normalize_description(Str(result[n].CONCEPTO)) :
                  n \in 1..Len(result)}

\* C6: a cluster with exactly 2 occurrences is reported by no detector.
C6_TwoOccurrencesNeverReported ==
    \A k \in ReportedKeys :
        Cardinality({i \in Transactions : ClusterKeyOf(i) = k}) # 2

\* the dashboard has run on a statement that holds exactly two charges of a
\* cluster, of the same amount and 30 days apart
C6_Witness ==
    /\ DashboardRan
    /\ \E i, j \in Expenses :
           /\ DateOf(j) - DateOf(i) = 30
           /\ statement[i].concepto = statement[j].concepto
           /\ AmountOf(i) = AmountOf(j)
           /\ {n \in Transactions : ClusterKeyOf(n) = ClusterKeyOf(i)} = {i, j}

\* C7: every report is about expenses: the amount it carries is negative.
C7_OnlyExpensesReported ==
    /\ \A n \in 1..Len(subs) : subs[n].Importe < 0
    /\ \A n \in 1..Len(result) : result[n].IMPORTE_EUR < 0

\* C8 as stated: the cluster behind a report is the set of expenses with the
\* report's normalized description, whatever their amounts: the report counts
\* all of them and spans their dates.
C8_ClusterIsNormalizedDescription ==
    /\ \A n \in 1..Len(subs) :
           LET T == {i \in Expenses : ClusterKeyOf(i) =
                        _normalize_description(Str(subs[n].Suscripcion))}
           IN  subs[n].Importe < 0 =>
                   /\ subs[n].Veces_detectadas = Cardinality(T)
                   /\ subs[n].Primer_pago = Min({DateOf(i) : i \in T})
                   /\ subs[n].Ultimo_pago = Max({DateOf(i) : i \in T})
    /\ \A n \in 1..Len(result) :
           LET T == {i \in Expenses : ClusterKeyOf(i) =
                        _normalize_description(Str(result[n].CONCEPTO))}
           IN  /\ result[n].count = Cardinality(MonthsOf(T))
               /\ result[n].first_date = Min({DateOf(i) : i \in T})
               /\ result[n].last_date = Max({DateOf(i) : i \in T})

LowerCased(text) ==
    [k \in 1..Len(text) |-> LowerChar(Char(text, k))]

\* C8 amended: the cluster behind a dashboard report is the set of rows with
\* the report's concept, as written, and the report's amount; the cluster
\* behind a detect_subs report is the set of expenses whose concept in lower
\* case is the report's, whatever their amounts.
C8_ClusterKeysOfTheCode ==
    /\ \A n \in 1..Len(subs) :
           LET T == {i \in Transactions :
                        /\ statement[i].concepto = subs[n].Suscripcion
                        /\ AmountOf(i) = subs[n].Importe}
           IN  /\ subs[n].Veces_detectadas = Cardinality(T)
               /\ subs[n].Primer_pago = Min({DateOf(i) : i \in T})
               /\ subs[n].Ultimo_pago = Max({DateOf(i) : i \in T})
    /\ \A n \in 1..Len(result) :
           LET T == {i \in Expenses :
                        LowerCased(statement[i].concepto) =
                            LowerCased(result[n].CONCEPTO)}
           IN  /\ result[n].count = Cardinality(MonthsOf(T))
               /\ result[n].first_date = Min({DateOf(i) : i \in T})
               /\ result[n].last_date = Max({DateOf(i) : i \in T})
    /\ \A n, m \in 1..Len(result) :
           result[n].CONCEPTO = result[m].CONCEPTO => n = m

\* detect_subs has reported a cluster whose members differ in the case of
\* their concept and in their amount
C8_Witness ==
    /\ DetectSubsRan
    /\ Len(result) = 1
    /\ \E i, j \in Expenses :
           /\ statement[i].concepto # statement[j].concepto
           /\ AmountOf(i) # AmountOf(j)
           /\ ClusterKeyOf(i) = ClusterKeyOf(j)


\* amounts of a set of transactions, as a sequence
AmountsIn(T) == [k \in 1..Cardinality(T) |-> AmountOf(Ascending(T)[k])]

Squares(amounts) == [k \in 1..Len(amounts) |-> amounts[k] * amounts[k]]

\* the population standard deviation of the amounts of T exceeds tol cents
StdExceeds(T, tol) ==
    LET n == Cardinality(T)
        a == AmountsIn(T)
    IN  n * Sum(Squares(a)) - Sum(a) * Sum(a) > tol * tol * n * n

\* amountTolerance values a caller may pass, in cents (2.0 is the claim's)
TOLERANCES == {200, 300}

SameConceptAsWritten(T) == Cardinality({statement[i].concepto : i \in T}) = 1

\* C9 as stated: for a tolerance, a cluster of expenses whose amounts have a
\* population standard deviation above it is not reported, and a cluster
\* within it whose dates are monthly is reported by the dashboard although
\* its amounts differ.
C9_ToleranceFilter ==
    \A tol \in TOLERANCES :
        \A k \in ClusterKeys :
            LET T == {i \in Expenses : ClusterKeyOf(i) = k}
            IN  /\ (Cardinality(T) >= 2 /\ StdExceeds(T, tol)) => ~Reported(k)
                /\ ( /\ DashboardRan
                     /\ Cardinality(T) >= 3
                     /\ SameConceptAsWritten(T)
                     /\ ~StdExceeds(T, tol)
                     /\ BandOf(TwiceMedian(GapsOf(T))) = "monthly" )
                       => Reported(k)

\* C9 amended: no tolerance is applied.  detect_subs reports a keyword
\* concept charged in 3 or more distinct months whatever the spread of its
\* amounts; the dashboard reports a concept only for an amount that occurs,
\* to the cent, in at least 3 of its rows.
C9_NoToleranceFilter ==
    /\ DetectSubsRan =>
           \A i \in Expenses :
               LET T == {j \in Expenses :
                            LowerCased(statement[j].concepto) =
                                LowerCased(statement[i].concepto)}
               IN  ( /\ HasSubscriptionKeyword(lower(statement[i].concepto))
                     /\ Cardinality(MonthsOf(T)) >= 3 )
                       => \E n \in 1..Len(result) :
                              result[n].CONCEPTO = lower(statement[i].concepto)
    /\ \A n \in 1..Len(subs) :
           Cardinality({i \in Transactions :
                           /\ statement[i].concepto = subs[n].Suscripcion
                           /\ AmountOf(i) = subs[n].Importe}) >= 3

\* detect_subs has reported a cluster of monthly charges whose amounts have
\* a standard deviation above 2.00
C9_Witness ==
    /\ DetectSubsRan
    /\ Len(result) = 1
    /\ LET T == {i \in Expenses :
                    lower(statement[i].concepto) = result[1].CONCEPTO}
       IN  /\ StdExceeds(T, 200)
           /\ BandOf(TwiceMedian(GapsOf(T))) = "monthly"

\* a is the mean of the amounts of T rounded to the cent
IsRoundedMean(a, T) ==
    LET n == Cardinality(T)
        d == n * a - Sum(AmountsIn(T))
    IN  2 * d <= n /\ -2 * d <= n

\* C10: a report describes the whole cluster the detector formed: its count
\* is the number of member transactions, its dates are the first and the
\* last member date, its amount the mean of the member amounts rounded to
\* the cent.
C10_ReportDescribesCluster ==
    /\ \A n \in 1..Len(subs) :
           LET T == {i \in Transactions :
                        /\ statement[i].concepto = subs[n].Suscripcion
                        /\ AmountOf(i) = subs[n].Importe}
           IN  /\ subs[n].Veces_detectadas = Cardinality(T)
               /\ subs[n].Primer_pago = Min({DateOf(i) : i \in T})
               /\ subs[n].Ultimo_pago = Max({DateOf(i) : i \in T})
               /\ IsRoundedMean(subs[n].Importe, T)
    /\ \A n \in 1..Len(result) :
           LET T == {i \in Expenses :
                        lower(statement[i].concepto) = result[n].CONCEPTO}
           IN  /\ result[n].count = Cardinality(T)
               /\ result[n].first_date = Min({DateOf(i) : i \in T})
               /\ result[n].last_date = Max({DateOf(i) : i \in T})
               /\ IsRoundedMean(result[n].IMPORTE_EUR, T)


\* the concepts of the statement in lower case, row by row
LoweredConcepts == [i \in 1..Len(statement) |-> lower(statement[i].concepto)]

\* the expenses whose concept holds a subscription keyword
KeywordExpenses ==
    {i \in Expenses : HasSubscriptionKeyword(LoweredConcepts[i])}

\* the calendar months in which the statement has a row
DatasetMonths == MonthsOf(1..Len(statement))

InResult(concept) == \E n \in 1..Len(result) : result[n].CONCEPTO = concept

\* C12 as stated: a keyword-matched cluster is reported exactly when the
\* number of distinct calendar months in which it has a charge is at least
\* the number of distinct calendar months of the whole statement minus one.
\* (low and kw name the lower-cased concepts and the keyword expenses.)
C12_MonthCoverageRatio ==
    called = "detect_subscriptions" =>
        \A low \in {LoweredConcepts} :
            \A kw \in {{i \in Expenses : HasSubscriptionKeyword(low[i])}} :
                \A i \in kw :
                    LET T == {j \in kw : low[j] = low[i]}
                    IN  InResult(low[i]) <=>
                            Cardinality(MonthsOf(T))
                                >= Cardinality(DatasetMonths) - 1

\* C12 amended: a keyword-matched cluster is reported exactly when it has a
\* charge in at least 3 distinct calendar months, whatever the number of
\* months of the statement.
C12_AtLeastThreeDistinctMonths ==
    called = "detect_subscriptions" =>
        \A low \in {LoweredConcepts} :
            \A kw \in {{i \in Expenses : HasSubscriptionKeyword(low[i])}} :
                \A i \in kw :
                    LET T == {j \in kw : low[j] = low[i]}
                    IN  InResult(low[i]) <=> Cardinality(MonthsOf(T)) >= 3

\* detect_subscriptions has returned a table that lacks a keyword cluster
\* charged in 2 of the 2 months of the statement
C12_Witness ==
    /\ DetectSubsRan
    /\ result = <<>>
    /\ Cardinality(DatasetMonths) = 2
    /\ \E i \in KeywordExpenses :
           Cardinality(MonthsOf({j \in KeywordExpenses :
               LoweredConcepts[j] = LoweredConcepts[i]})) = 2


\* C16: detect_subscriptions returns a table and does not raise, whatever
\* the rows of the statement; when expenses with a subscription keyword exist
\* and no concept covers 2 distinct calendar months, the table is empty.
C16_DetectSubscriptionsNeverRaises ==
    called = "detect_subscriptions" =>
        /\ raised = ""
        /\ (\A i \in KeywordExpenses :
               Cardinality(MonthsOf({j \in KeywordExpenses :
                   LoweredConcepts[j] = LoweredConcepts[i]})) < 2)
              => result = <<>>


(***************************************************************************)
(* Inputs of the normalizer: concatenations of a few pieces.               *)
(***************************************************************************)
PIECES == {"compra ", "Compra en ", "recibo", ".", " ", "ZARA",
           "pago móvil en ", "*netflix.com"}

RECURSIVE TextsOf(_)
TextsOf(n) ==
    IF n = 0 THEN {""}
    ELSE LET shorter == TextsOf(n - 1)
         IN  shorter \cup {p \o t : p \in PIECES, t \in shorter}

Descriptions == {Str(t) : t \in TextsOf(MaxPieces)} \cup {None}

(***************************************************************************)
(* Specification of the normalizer applied repeatedly to its own result.   *)
(***************************************************************************)
Idle ==
    /\ statement = <<>>
    /\ dataframe = EmptyFrame
    /\ category_totals = <<>>
    /\ monthly_summary_df = <<>>
    /\ called = ""
    /\ raised = ""
    /\ subs = <<>>
    /\ result = <<>>

InitNorm ==
    /\ desc \in Descriptions
    /\ normalized = <<>>
    /\ Idle

\* one more call: on desc first, then on the previous result
Normalize ==
    /\ Len(normalized) < MaxApply
    /\ normalized' = Append(normalized,
           _normalize_description(IF normalized = <<>> THEN desc
                                  ELSE Str(normalized[Len(normalized)])))
    /\ UNCHANGED <<desc, statement, dataframe, category_totals,
                   monthly_summary_df, called, raised, subs, result>>

NextNorm == Normalize

SpecNorm == InitNorm /\ [][NextNorm]_vars

\* C1: normalization is idempotent: a second application changes nothing,
\* also for a text that still starts with a listed prefix after one is cut.
C1_Idempotent ==
    Len(normalized) >= 2 => normalized[2] = normalized[1]

\* the listed prefixes a text starts with, by their position in the list
PrefixesOf(text) ==
    {j \in 1..Len(PREFIXES) : startswith(text, PREFIXES[j])}

\* C13: the result of one call on a text is its lower-cased form without the
\* first listed prefix it starts with, and without that prefix only, then
\* punctuation-replaced and whitespace-collapsed; a text that starts with no
\* listed prefix loses none; a non-text input gives the empty string.
C13_AtMostOnePrefix ==
    Len(normalized) >= 1 =>
        IF desc.type # "str" THEN normalized[1] = ""
        ELSE LET text == lower(desc.value)
                 cut == IF PrefixesOf(text) = {} THEN 0
                        ELSE Len(PREFIXES[Min(PrefixesOf(text))])
             IN  normalized[1] =
                     UnifySpaces(ReplaceTokens(SubSeq(text, cut + 1, Len(text))))

\* a text has lost a prefix and its result still starts with a listed prefix
C13_Witness ==
    /\ Len(normalized) >= 1
    /\ desc.type = "str"
    /\ PrefixesOf(lower(desc.value)) # {}
    /\ PrefixesOf(normalized[1]) # {}

====
